---- MODULE Spec2Model ----
(***************************************************************************)
(* Thompson-style NFA fragments (src/src/index.ts): the State and NFA      *)
(* classes, the combinators char, epsilon, concat, or, rep, plusRep and    *)
(* questionRep, and the recursive matcher State.test.                      *)
(*                                                                         *)
(* A State object is a record [accepting, transitionMap]; the heap of      *)
(* State objects is the sequence `states`, and a State reference is an     *)
(* index into it.  An NFA object is a record [inState, outState] of two    *)
(* references.  A string is a sequence of one-character strings.           *)
(***************************************************************************)
EXTENDS Naturals, Sequences, FiniteSets

\* ---------------------------------------------------------------- bounds
\* Longest input string handed to test.
MaxLen == 3
\* Number of combinator calls (char, epsilon, concat, or, rep, plusRep,
\* questionRep) a client makes under Spec, and under SpecDeep.
MaxOps == 4
MaxDeepOps == 5

\* ------------------------------------------------------------- alphabet
\* export const EPSILON = 'ϵ'
EPSILON == "ϵ"
\* The literal symbols a client passes to char.
Literals == {"a", "b"}
\* Every character an input string may hold: a JavaScript string may hold
\* the character 'ϵ' like any other.
Chars == Literals \cup {EPSILON}

\* Strings of length at most n over the characters cs.
RECURSIVE StringsUpTo(_, _)
StringsUpTo(cs, n) ==
  IF n = 0 THEN {<< >>}
  ELSE LET shorter == StringsUpTo(cs, n - 1)
       IN  shorter \cup {Append(w, c) : w \in shorter, c \in cs}

Inputs == StringsUpTo(Chars, MaxLen)
LiteralInputs == StringsUpTo(Literals, MaxLen)

\* ----------------------------------------------------------- class State
\* new State({ accepting }): the flag and an empty transition Map.
NewState(acc) == [accepting |-> acc, transitionMap |-> << >>]

\* State.getTransitionsForSymbol: this.transitionMap.get(symbol) ?? []
getTransitionsForSymbol(st, symbol) ==
  IF symbol \in DOMAIN st.transitionMap THEN st.transitionMap[symbol] ELSE << >>

\* State.addTransitionForSymbol on the State object `from` of heap S:
\* the Map entry for symbol becomes [...transitions, state].
addTransitionForSymbol(S, from, symbol, to) ==
  LET transitions == getTransitionsForSymbol(S[from], symbol)
      m == S[from].transitionMap
  IN  [S EXCEPT ![from].transitionMap =
         [k \in DOMAIN m \cup {symbol} |->
            IF k = symbol THEN Append(transitions, to) ELSE m[k]]]

\* ------------------------------------------------------- State.test
\* A matcher without the cycle guard.
neverVisited(visited, self) == FALSE

\* The cycle guard: visited.has(this).
alreadyVisited(visited, self) == self \in visited

\* visited.add(this)
markVisited(visited, self) == visited \cup {self}

\* input.slice(1)
restOf(input) == Tail(input)

\* visited = new Set(): the default parameter of test.
freshVisited == {}

\* A caller that shares its own Set with the callee of a symbol transition.
calleeVisitedShared(visited) == visited

\* The Set the callee of a symbol transition starts with: nextState.test(rest)
\* passes no Set, so the callee takes the default whatever the caller's holds.
calleeVisited(visited) == freshVisited

\* State.test(input, visited) on heap S.  The Set is shared by reference
\* along the epsilon recursion, so the result carries the Set as the call
\* leaves it: [ret |-> the boolean, visited |-> the Set afterwards].
RECURSIVE stateTest(_, _, _, _)
RECURSIVE symbolLoop(_, _, _, _, _)
RECURSIVE epsilonLoop(_, _, _, _, _)

\* for (const nextState of symbolTransitions) if (nextState.test(rest)) return true
symbolLoop(S, targets, i, rest, visited) ==
  IF i > Len(targets) THEN FALSE
  ELSE IF stateTest(S, targets[i], rest, calleeVisited(visited)).ret THEN TRUE
  ELSE symbolLoop(S, targets, i + 1, rest, visited)

\* for (const nextState of epsilon transitions)
\*   if (nextState.test(input, visited)) return true
epsilonLoop(S, targets, i, input, visited) ==
  IF i > Len(targets) THEN [ret |-> FALSE, visited |-> visited]
  ELSE LET r == stateTest(S, targets[i], input, visited)
       IN  IF r.ret THEN r
           ELSE epsilonLoop(S, targets, i + 1, input, r.visited)

stateTest(S, self, input, visited) ==
  IF alreadyVisited(visited, self) THEN [ret |-> FALSE, visited |-> visited]
  ELSE
    LET v == markVisited(visited, self)
        eps == getTransitionsForSymbol(S[self], EPSILON)
    IN  IF Len(input) = 0
        THEN IF S[self].accepting THEN [ret |-> TRUE, visited |-> v]
             ELSE epsilonLoop(S, eps, 1, << >>, v)
        ELSE LET symbol == Head(input)
                 rest == restOf(input)
                 symbolTransitions == getTransitionsForSymbol(S[self], symbol)
             IN  IF symbolLoop(S, symbolTransitions, 1, rest, v)
                 THEN [ret |-> TRUE, visited |-> v]
                 ELSE epsilonLoop(S, eps, 1, input, v)

\* NFA.test(input): this.inState.test(input)
test(S, nfa, input) == stateTest(S, nfa.inState, input, freshVisited).ret

\* ---------------------------------------------------------- combinators
\* Each combinator maps a heap to [states |-> the heap afterwards,
\* nfa |-> the NFA object returned].

\* char with an entry state that is accepting as well.
charAcceptingEntry(S, symbol) ==
  LET inState == Len(S) + 1
      outState == Len(S) + 2
      S1 == Append(Append(S, NewState(TRUE)), NewState(TRUE))
  IN  [states |-> addTransitionForSymbol(S1, inState, symbol, outState),
       nfa |-> [inState |-> inState, outState |-> outState]]

\* char(symbol)
char(S, symbol) ==
  LET inState == Len(S) + 1
      outState == Len(S) + 2
      S1 == Append(Append(S, NewState(FALSE)), NewState(TRUE))
  IN  [states |-> addTransitionForSymbol(S1, inState, symbol, outState),
       nfa |-> [inState |-> inState, outState |-> outState]]

\* epsilon()
epsilon(S) == char(S, EPSILON)

\* createInitStates()
createInitStates(S) ==
  [states |-> Append(Append(S, NewState(FALSE)), NewState(TRUE)),
   inState |-> Len(S) + 1, outState |-> Len(S) + 2]

\* concatPair that leaves the flag of first.outState set.
concatPairKeepingFlag(S, first, second) ==
  LET S2 == [S EXCEPT ![second.outState].accepting = TRUE]
  IN  [states |-> addTransitionForSymbol(S2, first.outState, EPSILON, second.inState),
       nfa |-> [inState |-> first.inState, outState |-> second.outState]]

\* concatPair(first, second)
concatPair(S, first, second) ==
  LET S1 == [S EXCEPT ![first.outState].accepting = FALSE]
      S2 == [S1 EXCEPT ![second.outState].accepting = TRUE]
  IN  [states |-> addTransitionForSymbol(S2, first.outState, EPSILON, second.inState),
       nfa |-> [inState |-> first.inState, outState |-> second.outState]]

\* orPair(first, second)
orPair(S, first, second) ==
  LET S1 == [S EXCEPT ![first.outState].accepting = FALSE]
      S2 == [S1 EXCEPT ![second.outState].accepting = FALSE]
      c == createInitStates(S2)
      S3 == addTransitionForSymbol(c.states, c.inState, EPSILON, first.inState)
      S4 == addTransitionForSymbol(S3, c.inState, EPSILON, second.inState)
      S5 == addTransitionForSymbol(S4, first.outState, EPSILON, c.outState)
  IN  [states |-> addTransitionForSymbol(S5, second.outState, EPSILON, c.outState),
       nfa |-> [inState |-> c.inState, outState |-> c.outState]]

\* rest.reduce(pair, first): the left fold of a pair combinator.
RECURSIVE reduceConcat(_, _, _, _)
reduceConcat(S, acc, rest, i) ==
  IF i > Len(rest) THEN [states |-> S, nfa |-> acc]
  ELSE LET r == concatPair(S, acc, rest[i])
       IN  reduceConcat(r.states, r.nfa, rest, i + 1)

RECURSIVE reduceOr(_, _, _, _)
reduceOr(S, acc, rest, i) ==
  IF i > Len(rest) THEN [states |-> S, nfa |-> acc]
  ELSE LET r == orPair(S, acc, rest[i])
       IN  reduceOr(r.states, r.nfa, rest, i + 1)

\* concat(first, ...rest)
concat(S, first, rest) == reduceConcat(S, first, rest, 1)

\* or(first, ...rest)
or(S, first, rest) == reduceOr(S, first, rest, 1)

\* rep(fragment)
rep(S, fragment) ==
  LET S1 == addTransitionForSymbol(S, fragment.inState, EPSILON, fragment.outState)
  IN  [states |-> addTransitionForSymbol(S1, fragment.outState, EPSILON, fragment.inState),
       nfa |-> fragment]

\* plusRep that adds the skip edge of rep as well.
plusRepWithSkip(S, fragment) ==
  LET S1 == addTransitionForSymbol(S, fragment.inState, EPSILON, fragment.outState)
  IN  [states |-> addTransitionForSymbol(S1, fragment.outState, EPSILON, fragment.inState),
       nfa |-> fragment]

\* plusRep(fragment)
plusRep(S, fragment) ==
  [states |-> addTransitionForSymbol(S, fragment.outState, EPSILON, fragment.inState),
   nfa |-> fragment]

\* questionRep(fragment)
questionRep(S, fragment) ==
  [states |-> addTransitionForSymbol(S, fragment.inState, EPSILON, fragment.outState),
   nfa |-> fragment]

\* ------------------------------------------------------------- the client
\* The client evaluates nested combinator calls such as
\* rep(or(char('a'), char('b'))): the arguments of a call are the values
\* returned last and not yet handed to a combinator, in the order they were
\* returned.  frags holds those values, the latest last.
VARIABLES
  states,      \* the heap of State objects
  frags,       \* the NFA objects returned and not yet handed to a combinator
  callsLeft,   \* combinator calls the client still makes
  last,        \* the last combinator call: its name, its arguments, the heap before it
  callStack,   \* the activations of State.test, the innermost last
  visitedSets, \* the Set objects of the activations, the innermost last
  ret,         \* <<b>> once a call of test has returned b, << >> otherwise
  tested       \* the NFA object and the input of the running or last NFA.test

vars == <<states, frags, callsLeft, last, callStack, visitedSets, ret, tested>>

NoCall == [op |-> "none", args |-> << >>, before |-> << >>]
NoTest == [nfa |-> << >>, input |-> << >>]

\* Nothing built yet, by a client that makes n combinator calls.
ClientOf(n) ==
  /\ states = << >>
  /\ frags = << >>
  /\ callsLeft = n
  /\ last = NoCall
  /\ callStack = << >>
  /\ visitedSets = << >>
  /\ ret = << >>
  /\ tested = NoTest

Init == ClientOf(MaxOps)

\* The client is synchronous: it calls a combinator only while no test runs;
\* the value an earlier test returned is gone by then.
ClientCalls ==
  /\ callsLeft > 0
  /\ callsLeft' = callsLeft - 1
  /\ callStack = << >>
  /\ callStack' = << >>
  /\ visitedSets' = << >>
  /\ ret' = << >>
  /\ tested' = NoTest

\* The last k values of frags, and frags without them.
LastOf(k) == SubSeq(frags, Len(frags) - k + 1, Len(frags))
ButLast(k) == SubSeq(frags, 1, Len(frags) - k)

\* A combinator called with the last k values returns r.
Returned(name, args, r) ==
  /\ ClientCalls
  /\ states' = r.states
  /\ frags' = Append(ButLast(Len(args)), r.nfa)
  /\ last' = [op |-> name, args |-> args, before |-> states]

CallChar(symbol) ==
  /\ ClientCalls
  /\ states' = char(states, symbol).states
  /\ frags' = Append(frags, char(states, symbol).nfa)
  /\ last' = [op |-> "char", args |-> <<symbol>>, before |-> states]

CallEpsilon ==
  /\ ClientCalls
  /\ states' = epsilon(states).states
  /\ frags' = Append(frags, epsilon(states).nfa)
  /\ last' = [op |-> "epsilon", args |-> << >>, before |-> states]

CallConcat(k) ==
  LET fs == LastOf(k)
  IN  Returned("concat", fs, concat(states, Head(fs), Tail(fs)))

CallOr(k) ==
  LET fs == LastOf(k)
  IN  Returned("or", fs, or(states, Head(fs), Tail(fs)))

CallRep ==
  /\ frags # << >>
  /\ Returned("rep", LastOf(1), rep(states, LastOf(1)[1]))

CallPlusRep ==
  /\ frags # << >>
  /\ Returned("plusRep", LastOf(1), plusRep(states, LastOf(1)[1]))

CallQuestionRep ==
  /\ frags # << >>
  /\ Returned("questionRep", LastOf(1), questionRep(states, LastOf(1)[1]))

Next ==
  \/ \E symbol \in Literals : CallChar(symbol)
  \/ CallEpsilon
  \/ \E k \in 1..Len(frags) : CallConcat(k)
  \/ \E k \in 1..Len(frags) : CallOr(k)
  \/ CallRep
  \/ CallPlusRep
  \/ CallQuestionRep

Spec == Init /\ [][Next]_vars

\* The same client, making one call more.
InitDeep == ClientOf(MaxDeepOps)

SpecDeep == InitDeep /\ [][Next]_vars

\* The NFA object the last combinator call returned.
result == frags[Len(frags)]

\* ------------------------------------------- State.test, one step at a time
\* An activation of State.test is [self, input, pc, i, owns]: the State it
\* runs on, its input, where it stands (entry: before the cycle guard;
\* symbol / epsilon: at the head of that for loop, about to take target i;
\* symbolCalled / epsilonCalled: waiting for the callee), and whether its
\* Set is one it made itself by the default parameter.

\* Combinator calls before a stepped test, and the longest stepped input.
MaxRunOps == 3
MaxRunLen == 1

RunInputs == StringsUpTo(Chars, MaxRunLen)

\* No activation chain of test is this deep: every activation that passed the
\* guard holds another State of its Set, and there is one Set per consumed
\* symbol.  The calls are capped here so that a matcher that loops is finite.
DepthCap == (MaxRunLen + 2) * (2 * MaxRunOps + 3)

Top == callStack[Len(callStack)]
CurrentVisited == visitedSets[Len(visitedSets)]

At(pcs) == callStack # << >> /\ Top.pc \in pcs

Activation(self, input, owns) ==
  [self |-> self, input |-> input, pc |-> "entry", i |-> 1, owns |-> owns]

\* return b, the Set of this position being vs when the call leaves
ReturnWith(b, vs) ==
  /\ callStack' = SubSeq(callStack, 1, Len(callStack) - 1)
  /\ visitedSets' = IF Top.owns THEN SubSeq(vs, 1, Len(vs) - 1) ELSE vs
  /\ ret' = <<b>>

Marked == [visitedSets EXCEPT ![Len(visitedSets)] = markVisited(@, Top.self)]

\* NFA.test(input) on the fragment returned last: this.inState.test(input)
StartTest(x) ==
  /\ callStack = << >>
  /\ frags # << >>
  /\ callStack' = <<Activation(result.inState, x, TRUE)>>
  /\ visitedSets' = <<freshVisited>>
  /\ ret' = << >>
  /\ tested' = [nfa |-> result, input |-> x]
  /\ UNCHANGED <<states, frags, callsLeft, last>>

\* if (visited.has(this)) return false
CycleGuard ==
  /\ At({"entry"})
  /\ alreadyVisited(CurrentVisited, Top.self)
  /\ ReturnWith(FALSE, visitedSets)
  /\ UNCHANGED <<states, frags, callsLeft, last, tested>>

\* visited.add(this); input is empty and this.accepting: return true
AcceptEmpty ==
  /\ At({"entry"})
  /\ ~alreadyVisited(CurrentVisited, Top.self)
  /\ Len(Top.input) = 0
  /\ states[Top.self].accepting
  /\ ReturnWith(TRUE, Marked)
  /\ UNCHANGED <<states, frags, callsLeft, last, tested>>

\* visited.add(this); go on to the loop over the epsilon transitions (empty
\* input) or over the transitions for input[0]
Enter ==
  /\ At({"entry"})
  /\ ~alreadyVisited(CurrentVisited, Top.self)
  /\ ~(Len(Top.input) = 0 /\ states[Top.self].accepting)
  /\ visitedSets' = Marked
  /\ callStack' = [callStack EXCEPT ![Len(callStack)].pc =
                     IF Len(Top.input) = 0 THEN "epsilon" ELSE "symbol"]
  /\ UNCHANGED <<states, frags, callsLeft, last, ret, tested>>

symbolTransitionsOf(f) == getTransitionsForSymbol(states[f.self], Head(f.input))
epsilonTransitionsOf(f) == getTransitionsForSymbol(states[f.self], EPSILON)

\* nextState.test(rest)
SymbolCall ==
  /\ At({"symbol"})
  /\ Top.i <= Len(symbolTransitionsOf(Top))
  /\ Len(callStack) < DepthCap
  /\ callStack' = Append([callStack EXCEPT ![Len(callStack)].pc = "symbolCalled"],
                         Activation(symbolTransitionsOf(Top)[Top.i], restOf(Top.input), TRUE))
  /\ visitedSets' = Append(visitedSets, calleeVisited(CurrentVisited))
  /\ UNCHANGED <<states, frags, callsLeft, last, ret, tested>>

\* the loop over symbolTransitions is over: on to the epsilon transitions
SymbolLoopDone ==
  /\ At({"symbol"})
  /\ Top.i > Len(symbolTransitionsOf(Top))
  /\ callStack' = [callStack EXCEPT ![Len(callStack)].pc = "epsilon",
                                    ![Len(callStack)].i = 1]
  /\ UNCHANGED <<states, frags, callsLeft, last, visitedSets, ret, tested>>

\* nextState.test(input, visited) or nextState.test('', visited)
EpsilonCall ==
  /\ At({"epsilon"})
  /\ Top.i <= Len(epsilonTransitionsOf(Top))
  /\ Len(callStack) < DepthCap
  /\ callStack' = Append([callStack EXCEPT ![Len(callStack)].pc = "epsilonCalled"],
                         Activation(epsilonTransitionsOf(Top)[Top.i], Top.input, FALSE))
  /\ UNCHANGED <<states, frags, callsLeft, last, visitedSets, ret, tested>>

\* the loop over the epsilon transitions is over: return false
EpsilonLoopDone ==
  /\ At({"epsilon"})
  /\ Top.i > Len(epsilonTransitionsOf(Top))
  /\ ReturnWith(FALSE, visitedSets)
  /\ UNCHANGED <<states, frags, callsLeft, last, tested>>

\* if (nextState.test(...)) return true
CalleeAccepted ==
  /\ At({"symbolCalled", "epsilonCalled"})
  /\ ret = <<TRUE>>
  /\ ReturnWith(TRUE, visitedSets)
  /\ UNCHANGED <<states, frags, callsLeft, last, tested>>

\* the callee returned false: the next target of the loop
CalleeRejected ==
  /\ At({"symbolCalled", "epsilonCalled"})
  /\ ret = <<FALSE>>
  /\ callStack' = [callStack EXCEPT
                     ![Len(callStack)].pc = IF Top.pc = "symbolCalled" THEN "symbol" ELSE "epsilon",
                     ![Len(callStack)].i = Top.i + 1]
  /\ ret' = << >>
  /\ UNCHANGED <<states, frags, callsLeft, last, visitedSets, tested>>

TestStep ==
  \/ CycleGuard
  \/ AcceptEmpty
  \/ Enter
  \/ SymbolCall
  \/ SymbolLoopDone
  \/ EpsilonCall
  \/ EpsilonLoopDone
  \/ CalleeAccepted
  \/ CalleeRejected

RunNext ==
  \/ Next
  \/ \E x \in RunInputs : StartTest(x)
  \/ TestStep

\* A running test is the only thing that runs: it takes its next step.
InitRun == ClientOf(MaxRunOps)

SpecRun == InitRun /\ [][RunNext]_vars /\ WF_vars(TestStep)

\* The stepped matcher returns what the recursive definition computes.
SteppedTestAgrees ==
  (callStack = << >> /\ ret # << >>) =>
    ret = <<test(states, tested.nfa, tested.input)>>

\* The cap on the depth of the activations is never what stops a call.
DepthCapNotReached == Len(callStack) < DepthCap

\* ------------------------------------------------- paths of the state graph
\* The targets of the edges keyed c that leave a state of Q.
Targets(S, Q, c) ==
  UNION {{getTransitionsForSymbol(S[q], c)[i] :
            i \in 1..Len(getTransitionsForSymbol(S[q], c))} : q \in Q}

\* The states reachable from Q along epsilon edges alone.
RECURSIVE EpsilonClosure(_, _)
EpsilonClosure(S, Q) ==
  LET more == Q \cup Targets(S, Q, EPSILON)
  IN  IF more = Q THEN Q ELSE EpsilonClosure(S, more)

\* The states some path from Q ends in whose non-epsilon labels spell input.
RECURSIVE EndsOfPaths(_, _, _)
EndsOfPaths(S, Q, input) ==
  IF Len(input) = 0 THEN EpsilonClosure(S, Q)
  ELSE EndsOfPaths(S, Targets(S, EpsilonClosure(S, Q), Head(input)), Tail(input))

\* A path from the entry state to an accepting state spells input.
PathAccepts(S, nfa, input) ==
  \E q \in EndsOfPaths(S, {nfa.inState}, input) : S[q].accepting
\* ------------------------------------------------------------ the claims
\* What the argument f of the last call accepted before the call mutated it.
AcceptedBefore(f, x) == test(last.before, f, x)

\* What the NFA object returned by the last call accepts now.
AcceptedNow(x) == test(states, result, x)

\* The strings the argument f of the last call accepted before the call.
LanguageBefore(f) == {y \in Inputs : AcceptedBefore(f, y)}

\* x is x1 ... xn, n >= 1, each piece in the language L.
RECURSIVE OneOrMore(_, _)
OneOrMore(L, x) ==
  \/ x \in L
  \/ \E j \in 1..(Len(x) - 1) :
       /\ SubSeq(x, 1, j) \in L
       /\ OneOrMore(L, SubSeq(x, j + 1, Len(x)))

\* x is x1 ... xn, n >= 0, each piece in the language L.
ZeroOrMore(L, x) == x = << >> \/ OneOrMore(L, x)

\* x is x_i ... x_n with x_j in the language Ls[j].
RECURSIVE SplitsAlong(_, _, _)
SplitsAlong(Ls, i, x) ==
  IF i = Len(Ls) THEN x \in Ls[i]
  ELSE \E j \in 0..Len(x) :
         /\ SubSeq(x, 1, j) \in Ls[i]
         /\ SplitsAlong(Ls, i + 1, SubSeq(x, j + 1, Len(x)))

\* The languages of the arguments of the last call before the call.
LanguagesBefore == [i \in 1..Len(last.args) |-> LanguageBefore(last.args[i])]

\* The states reachable from state q along edges of any key.
RECURSIVE ReachableFrom(_, _)
ReachableFrom(S, Q) ==
  LET more == Q \cup UNION {Targets(S, Q, c) : c \in Chars}
  IN  IF more = Q THEN Q ELSE ReachableFrom(S, more)

\* C1: for a literal symbol s, char(s) accepts the one-character string s and
\* no other string: not the empty string, not another character, nothing of
\* length two or more.
C1_CharAcceptsExactlyItsSymbol ==
  last.op = "char" =>
    \A x \in Inputs : AcceptedNow(x) <=> x = <<last.args[1]>>

C1_Witness ==
  /\ last.op = "char"
  /\ last.args = <<"a">>
  /\ AcceptedNow(<<"a">>)
  /\ ~AcceptedNow(<<"b">>)
  /\ ~AcceptedNow(<<"a", "a">>)
  /\ Len(frags) > 1

\* The statement of C2 over every input, the ones holding 'ϵ' included.
RepIsKleeneStar ==
  last.op = "rep" =>
    LET L == LanguageBefore(last.args[1])
    IN  \A x \in Inputs : AcceptedNow(x) <=> ZeroOrMore(L, x)

\* The half of C2 that the graph surgery of rep keeps: every concatenation of
\* zero or more strings accepted by a is accepted by rep(a).
RepAcceptsEveryRepetition ==
  last.op = "rep" =>
    LET L == LanguageBefore(last.args[1])
    IN  \A x \in Inputs : ZeroOrMore(L, x) => AcceptedNow(x)

\* C2, on the inputs that hold no 'ϵ' character: rep(a) accepts such an x
\* exactly when x is a concatenation of zero or more strings each accepted by
\* a before rep mutated it.
C2_RepIsKleeneStarOnLiteralInputs ==
  last.op = "rep" =>
    LET L == LanguageBefore(last.args[1])
    IN  \A x \in LiteralInputs : AcceptedNow(x) <=> ZeroOrMore(L, x)

\* The statement of C3 over every input, the ones holding 'ϵ' included.
QuestionRepIsZeroOrOne ==
  last.op = "questionRep" =>
    /\ AcceptedNow(<< >>)
    /\ \A x \in Inputs \ {<< >>} : AcceptedNow(x) <=> AcceptedBefore(last.args[1], x)

\* The half of C3 that the graph surgery of questionRep keeps.
QuestionRepAcceptsEmptyAndOnePass ==
  last.op = "questionRep" =>
    /\ AcceptedNow(<< >>)
    /\ \A x \in Inputs : AcceptedBefore(last.args[1], x) => AcceptedNow(x)

\* C3, on the inputs that hold no 'ϵ' character: questionRep(a) accepts the
\* empty string, and accepts such a non-empty x exactly when a accepted x
\* before questionRep mutated it.
C3_QuestionRepIsZeroOrOneOnLiteralInputs ==
  last.op = "questionRep" =>
    /\ AcceptedNow(<< >>)
    /\ \A x \in LiteralInputs \ {<< >>} :
         AcceptedNow(x) <=> AcceptedBefore(last.args[1], x)

\* C4: or(f1, ..., fn) accepts x exactly when at least one fi accepted x
\* before or mutated it.
C4_OrIsUnion ==
  last.op = "or" =>
    \A x \in Inputs :
      AcceptedNow(x) <=> \E i \in 1..Len(last.args) : AcceptedBefore(last.args[i], x)

\* C4 for the inputs that hold no 'ϵ' character.
OrIsUnionOnLiteralInputs ==
  last.op = "or" =>
    \A x \in LiteralInputs :
      AcceptedNow(x) <=> \E i \in 1..Len(last.args) : AcceptedBefore(last.args[i], x)

\* C5: concat(f1, ..., fn) accepts x exactly when x splits into consecutive
\* pieces x1 ... xn with xi accepted by fi before concat mutated it, and
\* concat of a single fragment returns it unchanged.
C5_ConcatIsConcatenation ==
  last.op = "concat" =>
    LET Ls == LanguagesBefore
    IN  /\ \A x \in Inputs : AcceptedNow(x) <=> SplitsAlong(Ls, 1, x)
        /\ Len(last.args) = 1 => result = last.args[1] /\ states = last.before

\* C5 for the inputs that hold no 'ϵ' character.
ConcatIsConcatenationOnLiteralInputs ==
  last.op = "concat" =>
    LET Ls == LanguagesBefore
    IN  /\ \A x \in LiteralInputs : AcceptedNow(x) <=> SplitsAlong(Ls, 1, x)
        /\ Len(last.args) = 1 => result = last.args[1] /\ states = last.before

\* C6: plusRep(a) rejects the empty string when a rejected it, and accepts
\* every concatenation of one or more strings each accepted by a before
\* plusRep mutated it.
C6_PlusRepIsOneOrMore ==
  last.op = "plusRep" =>
    LET L == LanguageBefore(last.args[1])
    IN  /\ << >> \notin L => ~AcceptedNow(<< >>)
        /\ \A x \in Inputs : OneOrMore(L, x) => AcceptedNow(x)

\* plusRep of a fragment that rejected the empty string, accepting two passes
\* that the fragment alone rejected.
C6_Witness ==
  /\ last.op = "plusRep"
  /\ ~AcceptedBefore(last.args[1], << >>)
  /\ ~AcceptedNow(<< >>)
  /\ \E x \in Inputs :
       /\ OneOrMore(LanguageBefore(last.args[1]), x)
       /\ ~AcceptedBefore(last.args[1], x)
       /\ AcceptedNow(x)
  /\ Len(states) >= 4

\* C7: the epsilon fragment accepts the empty string and no other string.
C7_EpsilonAcceptsOnlyEmpty ==
  last.op = "epsilon" =>
    \A x \in Inputs : AcceptedNow(x) <=> x = << >>

\* C7 for the inputs that hold no 'ϵ' character.
EpsilonAcceptsOnlyEmptyOnLiteralInputs ==
  last.op = "epsilon" =>
    \A x \in LiteralInputs : AcceptedNow(x) <=> x = << >>

\* C8: a test that was started returns a boolean; on the way, every
\* activation that passes the cycle guard makes the Set of its input position
\* strictly larger, and every call along a symbol transition gets a shorter
\* input than its caller has.
VisitedGrows ==
  (At({"entry"}) /\ ~(Top.self \in CurrentVisited) /\ Len(visitedSets') = Len(visitedSets))
    => /\ CurrentVisited \subseteq visitedSets'[Len(visitedSets')]
       /\ CurrentVisited # visitedSets'[Len(visitedSets')]

ConsumingShortens ==
  (At({"symbol"}) /\ Len(callStack') = Len(callStack) + 1)
    => Len(callStack'[Len(callStack')].input) < Len(Top.input)

C8_TestTerminates ==
  /\ (callStack # << >>) ~> (callStack = << >> /\ ret \in {<<TRUE>>, <<FALSE>>})
  /\ [][VisitedGrows]_vars
  /\ [][ConsumingShortens]_vars

\* A test on a graph with an epsilon cycle and duplicate epsilon edges that
\* was cut off by the cycle guard and has returned.
C8_Witness ==
  /\ callStack = << >>
  /\ ret = <<FALSE>>
  /\ Len(tested.input) = MaxRunLen
  /\ \E q \in 1..Len(states) :
       /\ Len(getTransitionsForSymbol(states[q], EPSILON)) >= 2
       /\ q \in EpsilonClosure(states, Targets(states, {q}, EPSILON))
       /\ q \in ReachableFrom(states, {tested.nfa.inState})

\* C9: the matcher, started at the entry state of the fragment returned last
\* with an empty visited set, returns true exactly when some path from that
\* entry state to an accepting state spells the whole input, for every input
\* over the literal symbols.
C9_MatcherFindsExactlyThePaths ==
  last.op # "none" =>
    \A x \in LiteralInputs :
      test(states, result, x) <=> PathAccepts(states, result, x)

\* A fragment with an alternation inside an epsilon cycle: a string found
\* through a second pass, and the empty string for which no path exists.
C9_Witness ==
  /\ last.op = "plusRep"
  /\ Len(getTransitionsForSymbol(states[result.inState], EPSILON)) >= 2
  /\ test(states, result, <<"a", "b">>)
  /\ PathAccepts(states, result, <<"a", "b">>)
  /\ ~test(states, result, << >>)
  /\ ~PathAccepts(states, result, << >>)

\* C10: the fragment returned by the last combinator call has exactly one
\* accepting state among the states reachable from its entry state, and that
\* state is its exit state.
C10_ExitIsTheOnlyAcceptingState ==
  last.op # "none" =>
    {q \in ReachableFrom(states, {result.inState}) : states[q].accepting}
      = {result.outState}

\* After a concat of a repeated fragment and another one: the exit of the
\* first is still reachable and its flag is cleared.
C10_Witness ==
  /\ last.op = "concat"
  /\ Len(last.args) = 2
  /\ EPSILON \in DOMAIN last.before[last.args[1].outState].transitionMap
  /\ last.args[1].outState \in ReachableFrom(states, {result.inState})
  /\ last.before[last.args[1].outState].accepting
  /\ ~states[last.args[1].outState].accepting
  /\ {q \in ReachableFrom(states, {result.inState}) : states[q].accepting}
       = {result.outState}
====
